---------------------------- MODULE Spec2Model ----------------------------
(***************************************************************************)
(* State-machine model of src/registration_checker.py: the interactive     *)
(* course setup, the browser launch with its fallback engine, the login    *)
(* wait, the tab fan-out, the initial status pass and the monitoring loop  *)
(* with its closed -> non-closed alert.                                    *)
(*                                                                         *)
(* Text (console lines, cell texts, statuses, course codes and names) is   *)
(* a sequence of one-character strings, so that strip(), lower() and       *)
(* isdigit() are computed rather than assumed.  Python's None is the       *)
(* one-element sequence None, which no text equals.                        *)
(***************************************************************************)
EXTENDS Naturals, Sequences, FiniteSets

(* ------------------------------ bounds -------------------------------- *)

\* Most course codes accepted by the setup prompt in one run.
MaxCourses == 2

\* Most monitoring rounds ("Check #n") explored.
MaxRounds == 2

\* Most lines typed at the course code prompt before the closing empty one.
MaxLines == 3

(* --------------------------- program constants ------------------------- *)

\* max_wait_time of wait_for_login, in seconds.
max_wait_time == 300

\* time.sleep(2) at the end of a login poll iteration, in seconds.
PollSleep == 2

None == <<"None">>

Closed == <<"c", "l", "o", "s", "e", "d">>

Unknown == <<"u", "n", "k", "n", "o", "w", "n">>

LOGGED_IN_TITLE == "UT Austin Registrar"

BASE_COURSE_URL == "https://utdirect.utexas.edu/apps/registrar/course_schedule"

(* ------------------------------ text ---------------------------------- *)

Whitespace == {" ", "\n", "\t"}

Digits == {"0", "1", "2", "3", "4", "5", "6", "7", "8", "9"}

\* str.lower() on one character.
LowerChar(c) ==
    CASE c = "C" -> "c"
      [] c = "L" -> "l"
      [] c = "O" -> "o"
      [] c = "S" -> "s"
      [] c = "E" -> "e"
      [] c = "D" -> "d"
      [] c = "P" -> "p"
      [] c = "N" -> "n"
      [] c = "W" -> "w"
      [] OTHER -> c

\* str.lower()
Lower(s) == [k \in 1..Len(s) |-> LowerChar(s[k])]

RECURSIVE LStrip(_)
LStrip(s) ==
    IF s = <<>> THEN <<>>
    ELSE IF Head(s) \in Whitespace THEN LStrip(Tail(s)) ELSE s

RECURSIVE RStrip(_)
RStrip(s) ==
    IF s = <<>> THEN <<>>
    ELSE IF s[Len(s)] \in Whitespace THEN RStrip(SubSeq(s, 1, Len(s) - 1)) ELSE s

\* str.strip()
Strip(s) == RStrip(LStrip(s))

\* Mutant of IsDigit: any non-empty text passes.
Mut_AnyNonEmpty(s) == s # <<>>

\* str.isdigit(): non-empty and all characters digits
IsDigit(s) == s # <<>> /\ \A k \in 1..Len(s) : s[k] \in Digits

\* Mutant of Truthy: the `if status:` guard left out.
Mut_AlwaysTruthy(v) == TRUE

\* Python truthiness of an Optional[str]
Truthy(v) == v # None /\ v # <<>>

(* ---------------------- inputs of the environment ---------------------- *)

\* Lines typed at the "Semester code: " prompt.
SemesterLines == { <<>>, <<" ">>, <<"2", "0", "2", "6", "2">> }

\* Lines typed at the "Course code #n" prompt.
CodeLines == { <<>>, <<" ">>, <<"1">>, <<" ", "2">>, <<"x">>, <<"1", "a">> }

\* Texts the first status cell can hold (inner_text before normalisation).
CellTexts ==
    { <<" ", "C", "l", "o", "s", "e", "d", "\n">>,
      <<"O", "P", "E", "N", " ">>,
      <<"w", "a", "i", "t", "l", "i", "s", "t", "e", "d">>,
      <<" ">> }

\* Ways inner_text(timeout=5000) can fail.
CellErrors == { <<"TimeoutError">>, <<"Error">> }

\* Page titles, as the phrases they contain.
Titles ==
    { <<"Sign in">>,
      <<"Stale Request">>,
      <<"UT Austin Registrar">>,
      <<"UT Austin Registrar", "Stale Request">>,
      <<"Course Schedule">> }

\* What one status check meets: a reload that raises (the cell is then never
\* read), or a reload that succeeds and the cell's text or read error.
ReadOutcomes ==
    { <<"raise", <<>>>> } \cup
    { <<"ok", cell>> : cell \in CellTexts \cup CellErrors }

\* `phrase in title`
Contains(title, phrase) == \E k \in 1..Len(title) : title[k] = phrase

(* ------------------------------ state --------------------------------- *)

VARIABLES
    pc,                \* position in monitor_courses
    semester,          \* semester code read by get_course_codes
    course_codes,      \* course codes read by get_course_codes
    browser,           \* "None", or "Browser": the handle either launch returns
    context,           \* TRUE once browser.new_context() returned
    pages,             \* the list `pages`
    i,                 \* loop index (1-based) of the fan-out, seeding and monitoring loops
    initial_statuses,  \* the dict initial_statuses: course name -> status or None
    check_count,       \* check_count of the monitoring loop
    elapsed,           \* time.time() - start_time inside wait_for_login (0 outside it)
    alerts,            \* calls of play_alarm so far, in order
    stop,              \* why monitor_courses left its main path ("" while it has not)
    login,             \* what wait_for_login last observed, until the first status check
    typed,             \* lines typed at the course code prompt, until the browser launch
    checked,           \* indices checked so far in the current monitoring round
    closeAttempted,    \* TRUE once browser.close() was called
    lastGood,          \* history: per course name, its most recent successful read
    hist,              \* history: per course name, flags about its reads so far
    ev                 \* history: the last status check made

vars == << pc, semester, course_codes, browser, context, pages, i,
           initial_statuses, check_count, elapsed, alerts, stop,
           closeAttempted, lastGood, hist, ev, login, typed, checked >>

(* ------------------------- derived locals ------------------------------ *)

Min(a, b) == IF a <= b THEN a ELSE b

\* course_names = [f"Course {code}" for code in course_codes]
course_names ==
    [k \in 1..Len(course_codes) |->
        <<"C", "o", "u", "r", "s", "e", " ">> \o course_codes[k]]

\* build_course_urls: f"{BASE_COURSE_URL}/{semester}/{code}/"
build_course_urls(sem, codes) ==
    [k \in 1..Len(codes) |-> <<BASE_COURSE_URL, sem, codes[k]>>]

course_urls == build_course_urls(semester, course_codes)

\* Number of (page, name) pairs zip(pages, course_names) yields.
Tracked == Min(Len(pages), Len(course_names))

\* dict.get(key, default)
Get(d, key, default) == IF key \in DOMAIN d THEN d[key] ELSE default

\* d[key] = value
Put(d, key, value) ==
    [x \in (DOMAIN d) \cup {key} |-> IF x = key THEN value ELSE d[x]]

(* --------------------------- pure functions ---------------------------- *)

\* get_status: the trimmed, lower-cased cell text, None on any error.
get_status(cell) ==
    IF cell \in CellErrors THEN None ELSE Lower(Strip(cell))

\* check_course_status: reload, then get_status; None on a reload error or
\* when get_status returned a falsy value.
check_course_status(reload, cell) ==
    IF reload = "raise" THEN None
    ELSE LET status == get_status(cell)
         IN  IF Truthy(status) THEN status ELSE None

\* Every value a call of check_course_status can return, over the outcomes
\* of the reload and of the cell read.
CheckResults ==
    { check_course_status(read[1], read[2]) : read \in ReadOutcomes }

\* Mutant of StatusChangedFromClosed: alert on any change of status.
\* Mutant of StatusChangedFromClosed: the stored status is not looked at.
Mut_NotClosedNow(initial_status, status) == status # Closed

Mut_AnyStatusChange(initial_status, status) == status # initial_status

\* The alert condition of the monitoring loop.
StatusChangedFromClosed(initial_status, status) ==
    initial_status = Closed /\ status # Closed

\* Mutant of UpdateOnAlert: the alert branch stores "closed" again.
Mut_ResetToClosed(statuses, name, status) == Put(statuses, name, Closed)

\* Mutant of UpdateOnAlert: the stored status is not updated when alerting.
Mut_NoUpdateOnAlert(statuses, name, status) == statuses

\* Mutant of UpdateOnAlert: the update overwrites every course's entry.
Mut_UpdateEveryCourse(statuses, name, status) ==
    [x \in DOMAIN statuses |-> status]

\* initial_statuses[name] = status in the alert branch ("so we don't alert
\* again for same change").
UpdateOnAlert(statuses, name, status) == Put(statuses, name, status)

\* The title test that opens the login wait.
IsLoginTitle(title) ==
    Contains(title, "Sign in") \/ Contains(title, "Stale Request")

\* The title test that ends the login wait.
IsLoggedInTitle(title) ==
    Contains(title, LOGGED_IN_TITLE) /\ ~Contains(title, "Sign in")

(* ------------------------------ history -------------------------------- *)

\* ev: the last status check: its kind ("seed" or "check"), the index, name
\* and page URL it was made on, the status it returned, whether play_alarm
\* was called, and what held for the name just before the check: its stored
\* status (prev), its most recent successful read (prevGood), and the
\* failed, steadyOn and onlyClosed fields of hist.
NoEvent ==
    [kind |-> "none", idx |-> 0, name |-> <<>>, url |-> <<>>, status |-> None,
     alerted |-> FALSE, prev |-> None, prevGood |-> None, afterFail |-> FALSE,
     steadyOn |-> None, onlyClosed |-> FALSE]

\* hist[name]: steadyOn = the status of the name's latest alert while every
\* successful read since returned that status, else None; onlyClosed = every
\* check of the name so far, the seeding one included, returned "closed";
\* failed = the name's latest check failed.
NoHist == [steadyOn |-> None, onlyClosed |-> TRUE, failed |-> FALSE]

\* login: the last observation of wait_for_login: result = "already" (the
\* first title is no login title), "waiting" (the poll loop goes on) or
\* "success" (the poll loop returned True); visible = the outcome of the
\* visibility check of that iteration ("interrupt": a KeyboardInterrupt was
\* raised inside it); title = the title read last.
NoLogin == [result |-> "none", visible |-> "unchecked", title |-> <<>>]

\* Number of play_alarm calls naming `name`.
AlertsFor(name) == Cardinality({k \in 1..Len(alerts) : alerts[k].name = name})

(* ------------------------------- Init ---------------------------------- *)

Init ==
    /\ pc = "semester"
    /\ semester = None
    /\ course_codes = <<>>
    /\ browser = "None"
    /\ context = FALSE
    /\ pages = <<>>
    /\ i = 1
    /\ initial_statuses = <<>>
    /\ check_count = 0
    /\ elapsed = 0
    /\ alerts = <<>>
    /\ stop = ""
    /\ closeAttempted = FALSE
    /\ lastGood = <<>>
    /\ hist = <<>>
    /\ ev = NoEvent
    /\ login = NoLogin
    /\ typed = <<>>
    /\ checked = <<>>

(* ----------------------- get_course_codes ------------------------------ *)

\* input("Semester code: ").strip(); an empty semester returns (None, []),
\* and monitor_courses then returns.
InputSemester ==
    /\ pc = "semester"
    /\ \E line \in SemesterLines :
          LET sem == Strip(line)
          IN  IF sem = <<>>
              THEN /\ pc' = "done"
                   /\ stop' = "setup"
                   /\ UNCHANGED semester
              ELSE /\ pc' = "codes"
                   /\ semester' = sem
                   /\ UNCHANGED stop
    /\ UNCHANGED << course_codes, browser, context, pages, i, initial_statuses,
                    check_count, elapsed, alerts, closeAttempted, lastGood,
                    hist, ev, login, typed, checked >>

\* One pass of the `while True` loop reading a course code.
InputCode ==
    /\ pc = "codes"
    /\ \E line \in CodeLines :
          LET course_code == Strip(line)
          IN  /\ IF course_code = <<>>
                 THEN IF Len(course_codes) = 0
                      THEN /\ pc' = "done"
                           /\ stop' = "setup"
                           /\ semester' = None
                           /\ UNCHANGED course_codes
                      ELSE /\ pc' = "firefox"
                           /\ UNCHANGED << stop, semester, course_codes >>
                 ELSE /\ Len(typed) < MaxLines
                      /\ IF ~IsDigit(course_code)
                         THEN UNCHANGED << pc, stop, semester, course_codes >>
                         ELSE /\ Len(course_codes) < MaxCourses
                              /\ course_codes' = Append(course_codes, course_code)
                              /\ UNCHANGED << pc, stop, semester >>
              /\ typed' = Append(typed, line)
    /\ UNCHANGED << browser, context, pages, i, initial_statuses, check_count,
                    elapsed, alerts, closeAttempted, lastGood, hist, ev, login,
                    checked >>

(* --------------------------- browser launch ---------------------------- *)

\* Mutant of AfterFirefox: the Chromium launch is attempted in any case.
Mut_AlwaysChromium(ok) == "chromium"

\* Where monitor_courses continues after p.firefox.launch: the Chromium
\* launch sits in the except clause of the Firefox launch.
AfterFirefox(ok) == IF ok THEN "context" ELSE "chromium"

\* p.firefox.launch(headless=False)
LaunchFirefox ==
    /\ pc = "firefox"
    /\ \E ok \in BOOLEAN :
          /\ IF ok THEN browser' = "Browser" ELSE UNCHANGED browser
          /\ pc' = AfterFirefox(ok)
    /\ typed' = <<>>
    /\ UNCHANGED << semester, course_codes, context, pages, i, initial_statuses,
                    check_count, elapsed, alerts, stop, closeAttempted,
                    lastGood, hist, ev, login, checked >>

\* p.chromium.launch(...) after Firefox failed; `return` when it fails too.
LaunchChromium ==
    /\ pc = "chromium"
    /\ \E ok \in BOOLEAN :
          IF ok THEN browser' = "Browser" /\ pc' = "context" /\ UNCHANGED stop
                ELSE UNCHANGED browser /\ pc' = "done" /\ stop' = "launch_failed"
    /\ UNCHANGED << semester, course_codes, context, pages, i, initial_statuses,
                    check_count, elapsed, alerts, closeAttempted, lastGood,
                    hist, ev, login, typed, checked >>

\* context = browser.new_context(), before the try block: an exception
\* leaves monitor_courses without reaching the finally clause.
NewContext ==
    /\ pc = "context"
    /\ \E ok \in BOOLEAN :
          IF ok THEN context' = TRUE /\ pc' = "page1" /\ UNCHANGED stop
                ELSE UNCHANGED context /\ pc' = "done" /\ stop' = "new_context"
    /\ UNCHANGED << semester, course_codes, browser, pages, i, initial_statuses,
                    check_count, elapsed, alerts, closeAttempted, lastGood,
                    hist, ev, login, typed, checked >>

(* ------------------------------ cleanup -------------------------------- *)

\* The finally clause of monitor_courses: browser.close() is attempted when
\* a browser exists (an error of close() is caught); monitor_courses then
\* returns and its locals cease to exist.
Cleanup ==
    /\ closeAttempted' = (browser # "None")
    /\ pc' = "done"
    /\ pages' = <<>>
    /\ initial_statuses' = <<>>
    /\ i' = 1
    /\ check_count' = 0
    /\ elapsed' = 0
    /\ login' = NoLogin
    /\ checked' = <<>>

\* An exception caught by `except Exception` (or the `return` of a failed
\* login) inside the try block, followed by the finally clause.
LeaveTry(cause) ==
    /\ stop' = cause
    /\ Cleanup

(* ------------------------ first page and login ------------------------- *)

\* page1 = context.new_page(); pages.append(page1)
NewPage1 ==
    /\ pc = "page1"
    /\ \E ok \in BOOLEAN :
          IF ok
          THEN /\ pages' = Append(pages, [url |-> course_urls[1]])
               /\ pc' = "goto"
               /\ UNCHANGED << stop, closeAttempted, initial_statuses, i,
                               check_count, elapsed, login, checked >>
          ELSE LeaveTry("new_page")
    /\ UNCHANGED << semester, course_codes, browser, context, alerts,
                    lastGood, hist, ev, typed >>

\* Where monitor_courses continues once wait_for_login returned True.
AfterLogin == IF Len(course_codes) > 1 THEN "fanout" ELSE "seed"

AfterLoginIndex == IF Len(course_codes) > 1 THEN 2 ELSE 1

\* wait_for_login up to its poll loop: goto, then the title test.
LoginGoto ==
    /\ pc = "goto"
    /\ \E nav \in {"ok", "raise"}, page_title \in Titles :
          IF nav = "raise"
          THEN LeaveTry("first_goto")
          ELSE /\ IF IsLoginTitle(page_title)
                  THEN pc' = "poll" /\ UNCHANGED i
                  ELSE pc' = AfterLogin /\ i' = AfterLoginIndex
               /\ elapsed' = 0
               /\ login' = [result  |-> IF IsLoginTitle(page_title)
                                        THEN "waiting" ELSE "already",
                            visible |-> "unchecked",
                            title   |-> page_title]
               /\ UNCHANGED << stop, closeAttempted, pages, initial_statuses,
                               check_count, checked >>
    /\ UNCHANGED << semester, course_codes, browser, context, alerts,
                    lastGood, hist, ev, typed >>

\* Mutant of LoopCondition: the deadline has always passed.
Mut_NeverWaiting(e) == FALSE

\* The condition of `while time.time() - start_time < max_wait_time`.
LoopCondition(e) == e < max_wait_time

\* One iteration of the poll loop of wait_for_login.  The visibility check
\* sits in `try: ... except: pass`: whatever it raises, a KeyboardInterrupt
\* included, is dropped, and the iteration goes on to the title test.
LoginPoll ==
    /\ pc = "poll"
    /\ LoopCondition(elapsed)
    /\ \E visible \in {"yes", "no", "raise", "interrupt"},
          current_title \in Titles :
          IF visible = "yes"
          THEN /\ pc' = AfterLogin /\ i' = AfterLoginIndex /\ elapsed' = 0
               /\ login' = [result |-> "success", visible |-> visible,
                            title |-> login.title]
          ELSE IF IsLoggedInTitle(current_title)
          THEN /\ pc' = AfterLogin /\ i' = AfterLoginIndex /\ elapsed' = 0
               /\ login' = [result |-> "success", visible |-> visible,
                            title |-> current_title]
          ELSE /\ elapsed' = elapsed + PollSleep /\ UNCHANGED << pc, i >>
               /\ login' = [result |-> "waiting", visible |-> visible,
                            title |-> current_title]
    /\ UNCHANGED << semester, course_codes, browser, context, pages,
                    initial_statuses, check_count, alerts, stop, closeAttempted,
                    lastGood, hist, ev, typed, checked >>

\* The poll loop's condition fails: wait_for_login returns False and
\* monitor_courses returns from inside the try block.
LoginTimeout ==
    /\ pc = "poll"
    /\ ~LoopCondition(elapsed)
    /\ LeaveTry("login_timeout")
    /\ UNCHANGED << semester, course_codes, browser, context, alerts,
                    lastGood, hist, ev, typed >>

(* ------------------------------ fan-out -------------------------------- *)

\* One iteration of `for i in range(1, len(course_codes))` (here i is 1-based):
\* the popup is appended as soon as it is captured; a failure of the capture
\* or of the load wait runs the fallback, which appends the page it creates;
\* a failure inside the fallback reaches the outer `except Exception`.
OpenCourse ==
    /\ pc = "fanout"
    /\ \E popup \in {"ok", "raise"}, load \in {"ok", "timeout"},
          fb_page \in {"ok", "raise"}, fb_goto \in {"ok", "raise"} :
          LET afterPopup ==
                  IF popup = "ok"
                  THEN Append(pages, [url |-> course_urls[i]])
                  ELSE pages
              next_pc == IF i = Len(course_codes) THEN "seed" ELSE "fanout"
              next_i  == IF i = Len(course_codes) THEN 1 ELSE i + 1
              Continue(ps) ==
                  /\ pages' = ps
                  /\ pc' = next_pc
                  /\ i' = next_i
                  /\ UNCHANGED << stop, closeAttempted, initial_statuses,
                                  check_count, elapsed, login, checked >>
          IN  IF popup = "ok" /\ load = "ok"
              THEN \E cell \in CellTexts \cup CellErrors :
                      \* the verification read is only logged
                      /\ Truthy(get_status(cell)) \in BOOLEAN
                      /\ Continue(afterPopup)
              ELSE IF fb_page = "raise" THEN LeaveTry("fallback_new_page")
              ELSE IF fb_goto = "raise" THEN LeaveTry("fallback_goto")
              ELSE Continue(Append(afterPopup, [url |-> course_urls[i]]))
    /\ UNCHANGED << semester, course_codes, browser, context, alerts,
                    lastGood, hist, ev, typed >>

(* ----------------------- initial status pass --------------------------- *)

\* One iteration of the seeding loop over zip(pages, course_names):
\* initial_statuses[name] = check_course_status(page, ...), None included.
SeedCourse ==
    /\ pc = "seed"
    /\ \E status \in CheckResults :
          LET name   == course_names[i]
              h      == Get(hist, name, NoHist)
          IN  /\ initial_statuses' = Put(initial_statuses, name, status)
              /\ lastGood' = Put(lastGood, name,
                                 IF status # None THEN status
                                 ELSE Get(lastGood, name, None))
              /\ hist' = Put(hist, name,
                             [steadyOn |-> None,
                              onlyClosed |-> h.onlyClosed /\ status = Closed,
                              failed |-> status = None])
              /\ ev' = [kind |-> "seed", idx |-> i, name |-> name,
                        url |-> pages[i].url, status |-> status,
                        alerted |-> FALSE,
                        prev |-> Get(initial_statuses, name, Unknown),
                        prevGood |-> Get(lastGood, name, None),
                        afterFail |-> h.failed, steadyOn |-> h.steadyOn,
                        onlyClosed |-> h.onlyClosed]
    /\ IF i = Tracked
       THEN pc' = "monitor" /\ i' = 1 /\ check_count' = 1
       ELSE i' = i + 1 /\ UNCHANGED << pc, check_count >>
    /\ login' = NoLogin
    /\ checked' = <<>>
    /\ UNCHANGED << semester, course_codes, browser, context, pages, elapsed,
                    alerts, stop, closeAttempted, typed >>

(* -------------------------- monitoring loop ---------------------------- *)

\* Mutant of NextInRound: the round ends after any course.
Mut_SleepAfterEveryCourse == "sleep"

\* Where the round continues after the i-th course.
NextInRound == IF i = Tracked THEN "sleep" ELSE "monitor"

NextIndex == IF i = Tracked THEN i ELSE i + 1

\* One iteration of `for i, (page, name) in enumerate(zip(pages, course_names))`
\* up to and including the call of play_alarm.
CheckCourse ==
    /\ pc = "monitor"
    /\ \E status \in CheckResults :
          LET name   == course_names[i]
              initial_status == Get(initial_statuses, name, Unknown)
              alert  == Truthy(status)
                        /\ StatusChangedFromClosed(initial_status, status)
              h      == hist[name]
          IN  /\ initial_statuses' =
                     IF alert THEN UpdateOnAlert(initial_statuses, name, status)
                     ELSE initial_statuses
              /\ alerts' =
                     IF alert
                     THEN Append(alerts, [name |-> name, status |-> status])
                     ELSE alerts
              /\ pc' = IF alert THEN "alarm" ELSE NextInRound
              /\ i' = IF alert THEN i ELSE NextIndex
              /\ lastGood' = IF status # None THEN Put(lastGood, name, status)
                             ELSE lastGood
              /\ hist' = Put(hist, name,
                     [steadyOn |-> IF alert THEN status
                                   ELSE IF status \in {None, h.steadyOn}
                                   THEN h.steadyOn
                                   ELSE None,
                      onlyClosed |-> h.onlyClosed /\ status = Closed,
                      failed |-> status = None])
              /\ ev' = [kind |-> "check", idx |-> i, name |-> name,
                        url |-> pages[i].url, status |-> status,
                        alerted |-> alert,
                        prev |-> initial_status,
                        prevGood |-> lastGood[name],
                        afterFail |-> h.failed, steadyOn |-> h.steadyOn,
                        onlyClosed |-> h.onlyClosed]
    /\ checked' = Append(checked, i)
    /\ UNCHANGED << semester, course_codes, browser, context, pages,
                    check_count, elapsed, stop, closeAttempted, login, typed >>

\* Mutant of play_alarm: a failure of the registration tab is not caught.
Mut_TabFailurePropagates(sound, speech, tab) ==
    IF tab = "raise" THEN "raise" ELSE "return"

\* How play_alarm ends.  sound and speech are whether the os.system commands
\* succeeded: os.system reports a failure in its return value, which is
\* dropped.  A failure of the registration tab (expect_popup, evaluate) is
\* caught by `except Exception` and logged.
play_alarm(sound, speech, tab) ==
    IF tab = "raise" THEN "return" ELSE "return"

\* The call of play_alarm in the alert branch.
PlayAlarm ==
    /\ pc = "alarm"
    /\ \E sound \in BOOLEAN, speech \in BOOLEAN, tab \in {"ok", "raise"} :
          IF play_alarm(sound, speech, tab) = "return"
          THEN /\ pc' = NextInRound
               /\ i' = NextIndex
               /\ UNCHANGED << pages, initial_statuses, check_count, elapsed,
                               stop, closeAttempted, login, checked >>
          ELSE LeaveTry("play_alarm")
    /\ UNCHANGED << semester, course_codes, browser, context, alerts,
                    lastGood, hist, ev, typed >>

\* time.sleep(CHECK_INTERVAL_SECONDS), then the next round starts.
Sleep ==
    /\ pc = "sleep"
    /\ check_count < MaxRounds
    /\ pc' = "monitor"
    /\ i' = 1
    /\ check_count' = check_count + 1
    /\ checked' = <<>>
    /\ UNCHANGED << semester, course_codes, browser, context, pages,
                    initial_statuses, elapsed, alerts, stop, closeAttempted,
                    lastGood, hist, ev, login, typed >>

(* ------------------------------ interrupt ------------------------------ *)

\* Positions inside the try block of monitor_courses.
InTry == {"page1", "goto", "poll", "fanout", "seed", "monitor", "alarm", "sleep"}

\* KeyboardInterrupt inside the try block: `except KeyboardInterrupt`, then
\* the finally clause.  No status check follows; the history of the checks
\* is dropped with the locals.
Interrupt ==
    /\ pc \in InTry
    /\ LeaveTry("interrupt")
    /\ lastGood' = <<>>
    /\ hist' = <<>>
    /\ ev' = NoEvent
    /\ UNCHANGED << semester, course_codes, browser, context, alerts, typed >>

(* ---------------------------- specification ---------------------------- *)

Next ==
    \/ InputSemester
    \/ InputCode
    \/ LaunchFirefox
    \/ LaunchChromium
    \/ NewContext
    \/ NewPage1
    \/ LoginGoto
    \/ LoginPoll
    \/ LoginTimeout
    \/ OpenCourse
    \/ SeedCourse
    \/ CheckCourse
    \/ PlayAlarm
    \/ Sleep
    \/ Interrupt

Spec == Init /\ [][Next]_vars

\* The poll loop of wait_for_login is sequential code whose calls are all
\* bounded (is_visible by its 2000 ms timeout, time.sleep by 2 s): an
\* iteration that can run does run, and so does the return after the loop.
FairSpec == Spec /\ WF_vars(LoginPoll) /\ WF_vars(LoginTimeout)


(* ------------------------------- claims -------------------------------- *)

\* The last status check was made by the monitoring loop.
CheckEv == ev.kind = "check"

Open == <<"o", "p", "e", "n">>

Waitlisted == <<"w", "a", "i", "t", "l", "i", "s", "t", "e", "d">>

\* C1: after every check, each course's stored status (its initial_statuses
\* entry) equals the status of that course's most recent successful read.
C1_StoredIsLatestSuccessfulRead ==
    \A n \in DOMAIN initial_statuses : initial_statuses[n] = lastGood[n]

\* C2: in the monitoring loop play_alarm is called for a course if and only
\* if the stored status just before the check is exactly "closed" and the
\* check returns a status that is not None and not "closed"; the call names
\* the course and that status.
C2_AlertIffLeftClosed ==
    CheckEv =>
        /\ ev.alerted <=>
              (ev.prev = Closed /\ ev.status # None /\ ev.status # Closed)
        /\ ev.alerted =>
              /\ alerts # <<>>
              /\ alerts[Len(alerts)] = [name |-> ev.name, status |-> ev.status]

\* C2 witness: a check that found "waitlisted" on a stored "closed" alerted.
C2_Witness ==
    /\ CheckEv
    /\ ev.alerted
    /\ ev.prev = Closed
    /\ ev.status = Waitlisted

\* C3: an alert fires at most once per closed -> non-closed transition: when
\* play_alarm starts the stored status already is the new status; a later
\* check that reads the status of the course's alert again, with no other
\* status read in between, does not alert; and a course all of whose checks
\* read "closed" has no alert, and gets exactly one in the check that first
\* reads another status.
C3_AlertOncePerTransition ==
    /\ pc = "alarm" =>
          /\ initial_statuses[ev.name] = ev.status
          /\ ev.status # Closed
    /\ (CheckEv /\ ev.steadyOn # None /\ ev.status = ev.steadyOn) => ~ev.alerted
    /\ (CheckEv /\ ev.onlyClosed /\ ev.status \notin {None, Closed}) =>
          (ev.alerted /\ AlertsFor(ev.name) = 1)
    /\ \A n \in DOMAIN hist : hist[n].onlyClosed => AlertsFor(n) = 0

\* C3 witness: a round after the alert read the alert's status again and
\* did not alert; the course still has its one alert.
C3_Witness ==
    /\ CheckEv
    /\ ev.steadyOn # None
    /\ ev.status = ev.steadyOn
    /\ ~ev.alerted
    /\ AlertsFor(ev.name) = 1

\* C4: a first successful read that is not "closed" fires no alert, and the
\* edge trigger re-arms: a check that reads a non-closed status when the
\* course's previous successful read was "closed" fires an alert.
C4_EdgeRearms ==
    CheckEv =>
        /\ (ev.prevGood = None /\ ev.status # Closed) => ~ev.alerted
        /\ (ev.prevGood = Closed /\ ev.status \notin {None, Closed}) => ev.alerted

\* C5: a failed read in the monitoring loop leaves the course's stored status
\* as it was and fires no alert, so for a stored "closed" the alert fires in
\* the check that first reads a non-closed status, however many failed
\* checks came before it.
C5_FailedReadIsInert ==
    CheckEv =>
        /\ ev.status = None =>
              (~ev.alerted /\ initial_statuses[ev.name] = ev.prev)
        /\ (ev.prev = Closed /\ ev.status \notin {None, Closed}) => ev.alerted

\* C5 witness: the check after a failed check of the same course read a
\* non-closed status on a stored "closed" and alerted.
C5_Witness ==
    /\ CheckEv
    /\ ev.afterFail
    /\ ev.prev = Closed
    /\ ev.status = Open
    /\ ev.alerted
    /\ AlertsFor(ev.name) = 1

\* A step of the monitoring loop that checks the i-th course.
CheckStep == pc = "monitor" /\ pc' # "done" /\ (pc' # pc \/ i' # i)

\* C6: alerts and stored statuses are per course: a check calls play_alarm
\* at most once and names the course it checked, it leaves the stored status
\* and the alerts of every other course as they were, and a check that reads
\* what the course's previous successful read returned fires no alert.
C6_AlertsArePerCourse ==
    /\ [](CheckEv /\ ev.status = ev.prevGood => ~ev.alerted)
    /\ [][CheckStep =>
            /\ alerts' = alerts
               \/ alerts' = Append(alerts, [name |-> course_names[i],
                                            status |-> ev'.status])
            /\ \A n \in DOMAIN initial_statuses :
                  n # course_names[i] =>
                      /\ initial_statuses'[n] = initial_statuses[n]
                      /\ AlertsFor(n)' = AlertsFor(n)
         ]_vars

\* C6 witness: of two courses seeded "closed" and "waitlisted", the first
\* read "open" and alerted, the second read "waitlisted" again: one alert,
\* naming the first, and the second's stored status still "waitlisted".
C6_Witness ==
    /\ CheckEv
    /\ ev.idx = 2
    /\ ev.name # course_names[1]
    /\ ev.status = Waitlisted
    /\ ev.prevGood = Waitlisted
    /\ ~ev.alerted
    /\ initial_statuses[ev.name] = Waitlisted
    /\ alerts = << [name |-> course_names[1], status |-> Open] >>

\* C7: the monitor tracks one course per identifier: no two tracked pages
\* share an identifier, and each has a stored status of its own.
C7_OneCoursePerIdentifier ==
    pc \in {"monitor", "alarm", "sleep"} =>
        /\ \A j, k \in 1..Tracked :
              j # k => course_codes[j] # course_codes[k]
        /\ Cardinality(DOMAIN initial_statuses) = Len(course_codes)

\* The course codes entered are pairwise distinct.
DistinctCodes ==
    \A j, k \in 1..Len(course_codes) :
        j # k => course_codes[j] # course_codes[k]

\* C8: once the fan-out is complete the list of tracked pages holds exactly
\* one page per course, the k-th page being the one opened on the k-th
\* course's URL, and every check is made on the page of its own course
\* (stated for pairwise distinct course codes, so that pages opened on
\* the same URL for a repeated code play no part).
C8_OnePagePerCourse ==
    DistinctCodes =>
        /\ pc \in {"seed", "monitor", "alarm", "sleep"} =>
              /\ Len(pages) = Len(course_codes)
              /\ \A k \in 1..Len(pages) : pages[k].url = course_urls[k]
        /\ ev.kind \in {"seed", "check"} => ev.url = course_urls[ev.idx]

\* C9: a failure in the fallback of the fan-out (creating the page directly,
\* or navigating it) is among the failures that are logged and skipped: it
\* never ends the run.
C9_FanoutFailureDoesNotEndRun ==
    pc = "done" => stop \notin {"fallback_new_page", "fallback_goto"}

\* C10: whenever a browser was launched, browser.close() has been attempted
\* by the time monitor_courses returns or propagates an exception.
C10_BrowserCloseAlwaysAttempted ==
    (pc = "done" /\ browser # "None") => closeAttempted

\* C11: a KeyboardInterrupt delivered while the session is active ends the
\* run: once one was delivered (inside the visibility check of the login
\* poll, or anywhere else in the try block) monitor_courses has stopped
\* polling, has gone through `except KeyboardInterrupt` and has attempted
\* browser.close().
C11_InterruptEndsRun ==
    (login.visible = "interrupt" \/ stop = "interrupt") =>
        /\ pc = "done"
        /\ stop = "interrupt"
        /\ closeAttempted

\* C12: wait_for_login that found a login title first reports success only
\* from a poll iteration in which the status selector was visible, or the
\* title read contains the authenticated title and neither "Sign in" nor
\* "Stale Request".
C12_LoginSuccessOnlyWhenAuthenticated ==
    login.result = "success" =>
        \/ login.visible = "yes"
        \/ /\ Contains(login.title, LOGGED_IN_TITLE)
           /\ ~IsLoginTitle(login.title)

\* C13: the login poll always terminates; wait_for_login returns False only
\* from the poll loop and only once the elapsed time has reached
\* max_wait_time; the loop is left only by a success, by that failure or by
\* an interrupt; and after the failure the run is over: no page is opened,
\* no status is checked and play_alarm is never called.
C13_LoginPollTerminates ==
    /\ (pc = "poll") ~> (pc # "poll")
    /\ [][stop' = "login_timeout" /\ stop # "login_timeout" =>
             pc = "poll" /\ elapsed >= max_wait_time]_vars
    /\ [][pc = "poll" /\ pc' # "poll" =>
             \/ login'.result = "success" /\ pc' = AfterLogin
             \/ stop' \in {"login_timeout", "interrupt"} /\ pc' = "done"]_vars
    /\ [](stop = "login_timeout" =>
             /\ pc = "done"
             /\ pages = <<>>
             /\ alerts = <<>>
             /\ ev = NoEvent
             /\ lastGood = <<>>)
    /\ [][stop # "login_timeout"]_vars

\* C13 witness: the poll loop ran to the deadline, wait_for_login returned
\* False, and monitor_courses returned through the finally clause.
C13_Witness ==
    /\ stop = "login_timeout"
    /\ pc = "done"
    /\ closeAttempted
    /\ alerts = <<>>

\* C14: whatever the sounds, the speech and the registration tab do,
\* play_alarm returns to the monitoring loop: no run ends inside play_alarm,
\* the step after the alert branch goes on to the next course of the round
\* (or to the sleep before the next round) unless the user interrupts, and
\* while play_alarm runs, and after it returned, the course's stored status
\* is the status of the alert.
C14_AlarmNeverEndsRun ==
    /\ [](stop # "play_alarm")
    /\ [](pc = "alarm" => initial_statuses[ev.name] = ev.status)
    /\ [][pc = "alarm" =>
             \/ stop' = "interrupt"
             \/ /\ pc' = NextInRound
                /\ i' = NextIndex
                /\ stop' = ""
                /\ initial_statuses'[ev.name] = ev.status
                /\ UNCHANGED << initial_statuses, alerts, check_count, pages >>
         ]_vars

\* C14 witness: the first course alerted in the first round, play_alarm
\* returned, the second course was checked in the same round, and the
\* second round has checked the first course again without a new alert.
C14_Witness ==
    /\ CheckEv
    /\ check_count = 2
    /\ ev.idx = 1
    /\ ~ev.alerted
    /\ Len(course_codes) = 2
    /\ alerts = << [name |-> course_names[1], status |-> Open] >>
    /\ initial_statuses[course_names[1]] = Open
    /\ stop = ""

\* The sequence 1, ..., n.
UpTo(n) == [k \in 1..n |-> k]

\* C15: in every monitoring round the tracked courses are checked one at a
\* time in the order they were entered, each exactly once, whatever the
\* checks of the other courses returned: before the check of the i-th
\* entry exactly the entries 1..i-1 have been checked in the round, each
\* check is made under the name of its entry, every course entered is
\* tracked, and the sleep starts only when all entries have been checked.
C15_EachCourseOncePerRound ==
    /\ pc = "monitor" => (i <= Tracked /\ checked = UpTo(i - 1))
    /\ pc = "alarm" => checked = UpTo(i)
    /\ pc = "sleep" => checked = UpTo(Tracked)
    /\ pc \in {"monitor", "alarm", "sleep"} => Tracked = Len(course_codes)
    /\ checked # <<>> =>
          /\ CheckEv
          /\ ev.idx = checked[Len(checked)]
          /\ ev.name = course_names[ev.idx]

\* C15 witness: in the second round the check of the first of two courses
\* failed, the second was checked all the same, and the round is at its
\* sleep with both checked once.
C15_Witness ==
    /\ pc = "sleep"
    /\ check_count = 2
    /\ DistinctCodes
    /\ checked = <<1, 2>>
    /\ hist[course_names[1]].failed
    /\ ev.idx = 2
    /\ ev.status = Open

\* A numeric course code: one or more digits.
NumericCode(code) == Len(code) > 0 /\ \A k \in 1..Len(code) : code[k] \in Digits

\* The numeric codes among the lines, surrounding whitespace removed, in the
\* order of the lines.
NumericCodes(lines) ==
    SelectSeq([k \in 1..Len(lines) |-> Strip(lines[k])], NumericCode)

\* The lines before the last one.
Front(lines) == SubSeq(lines, 1, Len(lines) - 1)

\* C16 as stated: get_course_codes returns at the first line that is empty
\* (no character at all), with exactly the numeric codes typed before it.
C16_ReturnsAtFirstEmptyLine ==
    pc = "firefox" =>
        /\ typed[Len(typed)] = <<>>
        /\ \A k \in 1..(Len(typed) - 1) : typed[k] # <<>>
        /\ course_codes = NumericCodes(Front(typed))

\* C16, corrected: get_course_codes returns at the first line that is empty
\* once its surrounding whitespace is removed, with exactly the numeric
\* codes typed before that line, in the order typed; a line that is not
\* numeric is never added and the prompt is repeated; an empty (or
\* whitespace-only) semester, or such a line before any numeric code, gives
\* (None, []), and monitor_courses then returns with no browser launched.
C16_ReturnsCodesBeforeFirstBlankLine ==
    /\ [](pc = "codes" =>
            /\ course_codes = NumericCodes(typed)
            /\ \A k \in 1..Len(typed) : Strip(typed[k]) # <<>>
            /\ semester # None /\ semester # <<>>)
    /\ [](pc = "firefox" =>
            /\ Strip(typed[Len(typed)]) = <<>>
            /\ \A k \in 1..(Len(typed) - 1) : Strip(typed[k]) # <<>>
            /\ course_codes = NumericCodes(Front(typed))
            /\ course_codes # <<>>
            /\ semester # None /\ semester # <<>>)
    /\ [](\A k \in 1..Len(course_codes) : NumericCode(course_codes[k]))
    /\ [](stop = "setup" =>
            /\ pc = "done"
            /\ semester = None
            /\ course_codes = <<>>
            /\ NumericCodes(typed) = <<>>
            /\ browser = "None"
            /\ ~context)
    /\ [][(/\ pc = "codes"
            /\ typed' # typed
            /\ ~NumericCode(Strip(typed'[Len(typed')]))
            /\ Strip(typed'[Len(typed')]) # <<>>)
           => (pc' = "codes" /\ course_codes' = course_codes)]_vars
    /\ [][(pc \in {"semester", "codes"} /\ pc' = "done")
           => (stop' = "setup" /\ browser' = "None")]_vars

\* C16 witness: a numeric code, a line that is not numeric, a numeric code
\* typed after a blank, then the closing empty line: get_course_codes
\* returned the two numeric codes in the order typed.
C16_Witness ==
    /\ pc = "firefox"
    /\ typed = << <<"1">>, <<"x">>, <<" ", "2">>, <<>> >>
    /\ course_codes = << <<"1">>, <<"2">> >>

\* C17: the seeding pass runs once every course has its page and before the
\* first round, it never calls play_alarm whatever it reads, and every
\* course has its stored status when the first round starts; play_alarm
\* is called only by a check of the monitoring loop, for the name checked
\* and with that name's stored status equal to "closed" just before: a
\* name whose stored status is never "closed" never has an alert.
C17_SeedingNeverAlerts ==
    /\ [](pc = "seed" =>
            /\ check_count = 0
            /\ alerts = <<>>
            /\ Len(pages) >= Len(course_codes))
    /\ [](ev.kind = "seed" => (~ev.alerted /\ alerts = <<>>))
    /\ [](pc \in {"monitor", "alarm", "sleep"} =>
            /\ check_count >= 1
            /\ \A k \in 1..Len(course_names) :
                  course_names[k] \in DOMAIN initial_statuses)
    /\ [](CheckEv /\ ev.prev # Closed => ~ev.alerted)
    /\ [][alerts' # alerts =>
             /\ pc = "monitor"
             /\ initial_statuses[course_names[i]] = Closed
             /\ \E status \in CheckResults :
                   alerts' = Append(alerts, [name |-> course_names[i],
                                             status |-> status])]_vars

\* C17 witness: the one course was seeded "open" and read "waitlisted" in
\* the first round: its stored status was never "closed", the status
\* changed, and there is no alert.
C17_Witness ==
    /\ CheckEv
    /\ Len(course_codes) = 1
    /\ check_count = 1
    /\ ev.prev = Open
    /\ ev.status = Waitlisted
    /\ ~ev.alerted
    /\ alerts = <<>>

\* C18: the Chromium launch is attempted only after the Firefox launch
\* failed; when both fail the run ends with no browser, no context, no
\* page, no status check and no alert; a browser is launched at most once
\* and a context created at most once, every page exists within that one
\* browser and context, and they are in use throughout the monitoring.
C18_LaunchFallback ==
    /\ [](pc = "chromium" => browser = "None")
    /\ [][pc' = "chromium" => pc \in {"firefox", "chromium"}]_vars
    /\ [](stop = "launch_failed" =>
            /\ pc = "done"
            /\ browser = "None"
            /\ ~context
            /\ ~closeAttempted
            /\ pages = <<>>
            /\ initial_statuses = <<>>
            /\ ev = NoEvent
            /\ alerts = <<>>)
    /\ [][stop # "launch_failed"]_vars
    /\ [][browser' # browser =>
             (browser = "None" /\ pc \in {"firefox", "chromium"})]_vars
    /\ [][context' # context => (~context /\ pc = "context")]_vars
    /\ [](context => browser = "Browser")
    /\ []((pages # <<>> \/ ev # NoEvent \/ alerts # <<>>) =>
             (browser = "Browser" /\ context))

\* C18 witness: the Firefox launch failed, the Chromium launch was attempted
\* and failed too, and monitor_courses returned with nothing created.
C18_Witness ==
    /\ stop = "launch_failed"
    /\ pc = "done"
    /\ course_codes # <<>>
    /\ browser = "None"
    /\ ~context

\* C19: over a whole run each course name has at most one alert: the stored
\* status is written only by the seeding pass and by the alert branch (and
\* dropped when monitor_courses returns), a name that has its alert has a
\* stored status other than "closed", and no step gives an alert to a name
\* whose stored status is not "closed".
C19_AtMostOneAlertPerName ==
    /\ [](\A k \in 1..Len(alerts) : AlertsFor(alerts[k].name) = 1)
    /\ [](\A n \in DOMAIN initial_statuses :
             AlertsFor(n) >= 1 => initial_statuses[n] # Closed)
    /\ [][initial_statuses' # initial_statuses =>
             \/ pc = "seed"
             \/ pc = "monitor" /\ pc' = "alarm"
             \/ pc' = "done"]_vars
    /\ [][\A n \in DOMAIN initial_statuses :
             (pc # "seed" /\ initial_statuses[n] # Closed) =>
                 AlertsFor(n)' = AlertsFor(n)]_vars

\* C19 witness: a course that had its alert on "open" was read "waitlisted"
\* in the next round: a new status, no new alert.
C19_Witness ==
    /\ CheckEv
    /\ check_count = 2
    /\ AlertsFor(ev.name) = 1
    /\ ev.prev = Open
    /\ ev.status = Waitlisted
    /\ ~ev.alerted

=============================================================================
